---- MODULE Spec2Model ----
(***************************************************************************)
(* InventoryPro (src/InventoryPro/app.py): three JSON files (products,     *)
(* locations, movements), the request handlers that read and rewrite them, *)
(* and the balance report computed from them.                              *)
(*                                                                         *)
(* A Python str is modelled as a sequence of one-character strings, so     *)
(* that strip(), split('|'), concatenation and the code-point order used   *)
(* by sort() are computed and not assumed.                                 *)
(***************************************************************************)
EXTENDS Integers, Sequences, FiniteSets, TLC

VARIABLES
    products,      \* content of data/products.json  (absent file = <<>>)
    locations,     \* content of data/locations.json (absent file = <<>>)
    movements,     \* content of data/movements.json (absent file = <<>>)
    req,           \* the request handled last: route, method, URL argument, form
    resp,          \* its response: flashed message and body
    report_data,   \* what the last /report request handed to the template
    workers,       \* requests in flight on the threaded server (SpecConc)
    acked,         \* movements whose request flashed success (SpecConc)
    raced          \* a request loaded the file while another was in flight

vars == <<products, locations, movements, req, resp, report_data,
          workers, acked, raced>>

\* ------------------------------------------------------------------ bounds
MaxRecords == 2      \* registry records (products plus locations) ever added
MaxMovements == 3    \* movements ever in the ledger file
MaxManualId == 3     \* largest movement_id of a hand-edited ledger file
MaxManualLen == 2    \* records of a hand-edited ledger file
MaxReportLen == 2    \* movements of a ledger handed to the report

\* ------------------------------------------------------------- Python str
\* None: a value no str equals (every element of a str is one character)
None == <<"None">>

Space == {" ", "\t", "\n"}

RECURSIVE lstrip(_)
lstrip(s) ==
    IF s # <<>> /\ Head(s) \in Space THEN lstrip(Tail(s)) ELSE s

RECURSIVE rstrip(_)
rstrip(s) ==
    IF s # <<>> /\ s[Len(s)] \in Space
    THEN rstrip(SubSeq(s, 1, Len(s) - 1))
    ELSE s

\* str.strip(): leading and trailing whitespace removed
strip(s) == rstrip(lstrip(s))

\* ord(c) of the characters the model uses
ord(c) ==
    CASE c = "\t" -> 9
      [] c = "\n" -> 10
      [] c = " " -> 32
      [] c = "-" -> 45
      [] c = "0" -> 48
      [] c = "1" -> 49
      [] c = "4" -> 52
      [] c = "A" -> 65
      [] c = "B" -> 66
      [] c = "K" -> 75
      [] c = "L" -> 76
      [] c = "M" -> 77
      [] c = "N" -> 78
      [] c = "P" -> 80
      [] c = "Q" -> 81
      [] c = "U" -> 85
      [] c = "X" -> 88
      [] c = "a" -> 97
      [] c = "b" -> 98
      [] c = "c" -> 99
      [] c = "d" -> 100
      [] c = "k" -> 107
      [] c = "n" -> 110
      [] c = "o" -> 111
      [] c = "w" -> 119
      [] c = "x" -> 120
      [] c = "y" -> 121
      [] c = "|" -> 124

\* s < t for Python str: lexicographic by code point, a proper prefix first
RECURSIVE str_lt(_, _)
str_lt(s, t) ==
    IF t = <<>> THEN FALSE
    ELSE IF s = <<>> THEN TRUE
    ELSE IF Head(s) = Head(t) THEN str_lt(Tail(s), Tail(t))
    ELSE ord(Head(s)) < ord(Head(t))

\* ------------------------------------------------------- flat-record store
\* load_data: the records of the file, [] when the file does not exist
load_data(file) == file

\* save_data with the file opened for appending
save_data_appends(file, data) == file \o data

\* save_data: the file's new content, the old content overwritten as a whole
save_data(file, data) == data

NoForm == [f \in {} |-> <<>>]

Request(route, method, arg, form) ==
    [route |-> route, method |-> method, arg |-> arg, form |-> form]

Response(category, message, body) ==
    [category |-> category, flash |-> message, body |-> body]

\* -------------------------------------------------------- request inputs
Methods == {"GET", "POST"}
IdInputs == {<<"a">>, <<" ", "a", " ">>, <<"b">>}
NameInputs == {<<"x">>, <<" ", "y">>}
TextInputs == {<<>>, <<"d", " ">>}
UrlIds == {<<"a">>, <<"b">>, <<" ", "a", " ">>}

\* ------------------------------------------------------- product registry
\* any(p['product_id'] == product_id for p in products)
HasProductId(products_l, product_id) ==
    \E i \in 1..Len(products_l) : products_l[i].product_id = product_id

\* the POST branch of add_product with the duplicate check on the raw field
AddProductPostChecksRaw(products_l, form) ==
    LET product_id == strip(form.product_id)
    IN  IF HasProductId(products_l, form.product_id)
        THEN [saved |-> FALSE, data |-> products_l,
              resp |-> Response("error", "Product ID already exists!",
                                "redirect:add_product")]
        ELSE [saved |-> TRUE,
              data |-> Append(products_l,
                              [product_id |-> product_id,
                               name |-> strip(form.name),
                               description |-> strip(form.description)]),
              resp |-> Response("success", "Product added successfully!",
                                "redirect:products")]

\* the POST branch of add_product on the loaded list and the form
AddProductPost(products_l, form) ==
    LET product_id == strip(form.product_id)
        name == strip(form.name)
        description == strip(form.description)
    IN  IF HasProductId(products_l, product_id)
        THEN [saved |-> FALSE, data |-> products_l,
              resp |-> Response("error", "Product ID already exists!",
                                "redirect:add_product")]
        ELSE [saved |-> TRUE,
              data |-> Append(products_l,
                              [product_id |-> product_id, name |-> name,
                               description |-> description]),
              resp |-> Response("success", "Product added successfully!",
                                "redirect:products")]

add_product_post ==
    \E pid \in IdInputs, nm \in NameInputs, ds \in TextInputs :
        LET form == [product_id |-> pid, name |-> nm, description |-> ds]
            r == AddProductPost(load_data(products), form)
        IN  /\ r.saved => Len(products) + Len(locations) < MaxRecords
            /\ products' = IF r.saved THEN save_data(products, r.data)
                           ELSE products
            /\ req' = Request("add_product", "POST", <<>>, form)
            /\ resp' = r.resp
            /\ UNCHANGED <<locations, movements, report_data,
                           workers, acked, raced>>

add_product_get ==
    /\ req' = Request("add_product", "GET", <<>>, NoForm)
    /\ resp' = Response("", "", "render:add_product.html")
    /\ UNCHANGED <<products, locations, movements, report_data,
                   workers, acked, raced>>

add_product == add_product_post \/ add_product_get

\* next((p for p in products if p['product_id'] == product_id), None):
\* the index of the first match, 0 for None
FindProduct(products_l, product_id) ==
    IF HasProductId(products_l, product_id)
    THEN CHOOSE i \in 1..Len(products_l) :
            /\ products_l[i].product_id = product_id
            /\ \A j \in 1..(i - 1) : products_l[j].product_id # product_id
    ELSE 0

\* edit_product on the loaded list: not found, the POST branch, the GET branch
EditProduct(products_l, product_id, method, form) ==
    LET i == FindProduct(products_l, product_id)
    IN  IF i = 0
        THEN [saved |-> FALSE, data |-> products_l,
              resp |-> Response("error", "Product not found!",
                                "redirect:products")]
        ELSE IF method = "POST"
        THEN [saved |-> TRUE,
              data |-> [products_l EXCEPT
                           ![i].name = strip(form.name),
                           ![i].description = strip(form.description)],
              resp |-> Response("success", "Product updated successfully!",
                                "redirect:products")]
        ELSE [saved |-> FALSE, data |-> products_l,
              resp |-> Response("", "", "render:edit_product.html")]

edit_product_post ==
    \E product_id \in UrlIds, nm \in NameInputs, ds \in TextInputs :
        LET form == [name |-> nm, description |-> ds]
            r == EditProduct(load_data(products), product_id, "POST", form)
        IN  /\ products' = IF r.saved THEN save_data(products, r.data)
                           ELSE products
            /\ req' = Request("edit_product", "POST", product_id, form)
            /\ resp' = r.resp
            /\ UNCHANGED <<locations, movements, report_data,
                           workers, acked, raced>>

edit_product_get ==
    \E product_id \in UrlIds :
        LET r == EditProduct(load_data(products), product_id, "GET", NoForm)
        IN  /\ req' = Request("edit_product", "GET", product_id, NoForm)
            /\ resp' = r.resp
            /\ UNCHANGED <<products, locations, movements, report_data,
                           workers, acked, raced>>

edit_product == edit_product_post \/ edit_product_get

\* ------------------------------------------------------ location registry
\* any(l['location_id'] == location_id for l in locations)
HasLocationId(locations_l, location_id) ==
    \E i \in 1..Len(locations_l) : locations_l[i].location_id = location_id

\* the POST branch of add_location with the duplicate record appended anyway
AddLocationPostAppendsDuplicate(locations_l, form) ==
    LET location_id == strip(form.location_id)
    IN  IF HasLocationId(locations_l, location_id)
        THEN [saved |-> TRUE,
              data |-> Append(locations_l,
                              [location_id |-> location_id,
                               name |-> strip(form.name),
                               address |-> strip(form.address)]),
              resp |-> Response("error", "Location ID already exists!",
                                "redirect:add_location")]
        ELSE [saved |-> TRUE,
              data |-> Append(locations_l,
                              [location_id |-> location_id,
                               name |-> strip(form.name),
                               address |-> strip(form.address)]),
              resp |-> Response("success", "Location added successfully!",
                                "redirect:locations")]

\* the POST branch of add_location on the loaded list and the form
AddLocationPost(locations_l, form) ==
    LET location_id == strip(form.location_id)
        name == strip(form.name)
        address == strip(form.address)
    IN  IF HasLocationId(locations_l, location_id)
        THEN [saved |-> FALSE, data |-> locations_l,
              resp |-> Response("error", "Location ID already exists!",
                                "redirect:add_location")]
        ELSE [saved |-> TRUE,
              data |-> Append(locations_l,
                              [location_id |-> location_id, name |-> name,
                               address |-> address]),
              resp |-> Response("success", "Location added successfully!",
                                "redirect:locations")]

add_location_post ==
    \E lid \in IdInputs, nm \in NameInputs, ad \in TextInputs :
        LET form == [location_id |-> lid, name |-> nm, address |-> ad]
            r == AddLocationPost(load_data(locations), form)
        IN  /\ r.saved => Len(products) + Len(locations) < MaxRecords
            /\ locations' = IF r.saved THEN save_data(locations, r.data)
                            ELSE locations
            /\ req' = Request("add_location", "POST", <<>>, form)
            /\ resp' = r.resp
            /\ UNCHANGED <<products, movements, report_data,
                           workers, acked, raced>>

add_location_get ==
    /\ req' = Request("add_location", "GET", <<>>, NoForm)
    /\ resp' = Response("", "", "render:add_location.html")
    /\ UNCHANGED <<products, locations, movements, report_data,
                   workers, acked, raced>>

add_location == add_location_post \/ add_location_get

\* next((l for l in locations if l['location_id'] == location_id), None)
FindLocation(locations_l, location_id) ==
    IF HasLocationId(locations_l, location_id)
    THEN CHOOSE i \in 1..Len(locations_l) :
            /\ locations_l[i].location_id = location_id
            /\ \A j \in 1..(i - 1) : locations_l[j].location_id # location_id
    ELSE 0

\* edit_location writing the form's name into every record
EditLocationRenamesAll(locations_l, location_id, method, form) ==
    LET i == FindLocation(locations_l, location_id)
    IN  IF i = 0
        THEN [saved |-> FALSE, data |-> locations_l,
              resp |-> Response("error", "Location not found!",
                                "redirect:locations")]
        ELSE IF method = "POST"
        THEN [saved |-> TRUE,
              data |-> [j \in 1..Len(locations_l) |->
                           [locations_l[j] EXCEPT
                               !.name = strip(form.name),
                               !.address = IF j = i THEN strip(form.address)
                                           ELSE @]],
              resp |-> Response("success", "Location updated successfully!",
                                "redirect:locations")]
        ELSE [saved |-> FALSE, data |-> locations_l,
              resp |-> Response("", "", "render:edit_location.html")]

\* edit_location on the loaded list: not found, the POST branch, the GET branch
EditLocation(locations_l, location_id, method, form) ==
    LET i == FindLocation(locations_l, location_id)
    IN  IF i = 0
        THEN [saved |-> FALSE, data |-> locations_l,
              resp |-> Response("error", "Location not found!",
                                "redirect:locations")]
        ELSE IF method = "POST"
        THEN [saved |-> TRUE,
              data |-> [locations_l EXCEPT
                           ![i].name = strip(form.name),
                           ![i].address = strip(form.address)],
              resp |-> Response("success", "Location updated successfully!",
                                "redirect:locations")]
        ELSE [saved |-> FALSE, data |-> locations_l,
              resp |-> Response("", "", "render:edit_location.html")]

edit_location_post ==
    \E location_id \in UrlIds, nm \in NameInputs, ad \in TextInputs :
        LET form == [name |-> nm, address |-> ad]
            r == EditLocation(load_data(locations), location_id, "POST", form)
        IN  /\ locations' = IF r.saved THEN save_data(locations, r.data)
                            ELSE locations
            /\ req' = Request("edit_location", "POST", location_id, form)
            /\ resp' = r.resp
            /\ UNCHANGED <<products, movements, report_data,
                           workers, acked, raced>>

edit_location_get ==
    \E location_id \in UrlIds :
        LET r == EditLocation(load_data(locations), location_id, "GET", NoForm)
        IN  /\ req' = Request("edit_location", "GET", location_id, NoForm)
            /\ resp' = r.resp
            /\ UNCHANGED <<products, locations, movements, report_data,
                           workers, acked, raced>>

edit_location == edit_location_post \/ edit_location_get

\* ------------------------------------------------------------ registries
NoRequest == Request("", "", <<>>, NoForm)
NoResponse == Response("", "", "")
NoReport == [error |-> FALSE, rows |-> <<>>, done |-> FALSE]

Init ==
    /\ products = <<>>
    /\ locations = <<>>
    /\ movements = <<>>
    /\ req = NoRequest
    /\ resp = NoResponse
    /\ report_data = NoReport
    /\ workers = <<>>
    /\ acked = <<>>
    /\ raced = FALSE

Next ==
    \/ add_product_post
    \/ add_product_get
    \/ edit_product_post
    \/ edit_product_get
    \/ add_location_post
    \/ add_location_get
    \/ edit_location_post
    \/ edit_location_get

Spec == Init /\ [][Next]_vars

\* --------------------------------------------------------- movement ledger
ProductInputs == {<<"P">>}
LocationInputs == {<<" ">>, <<"L", " ">>}
QtyInputs == {<<"-", "4">>, <<"0">>, <<" ", "1", "0">>, <<"x">>}

\* datetime.now().strftime('%Y-%m-%d %H:%M:%S'): the wall clock is an input
Timestamps == {"2024-01-01 00:00:00"}

Digits == {"0", "1", "4"}

RECURSIVE digits_value(_, _)
digits_value(s, acc) ==
    IF s = <<>> THEN acc
    ELSE digits_value(Tail(s), 10 * acc + (ord(Head(s)) - ord("0")))

\* int(s): blanks around, an optional sign, then digits; ValueError otherwise
ParseInt(s) ==
    LET t == strip(s)
        signed == t # <<>> /\ Head(t) \in {"-", "+"}
        d == IF signed THEN Tail(t) ELSE t
    IN  IF d = <<>> \/ \E i \in 1..Len(d) : d[i] \notin Digits
        THEN [ok |-> FALSE, value |-> 0]
        ELSE [ok |-> TRUE,
              value |-> IF signed /\ Head(t) = "-"
                        THEN 0 - digits_value(d, 0)
                        ELSE digits_value(d, 0)]

\* if not x: x = None
OrNone(x) == IF x = <<>> THEN None ELSE x

\* not from_location or not to_location
EitherMissing(from_location, to_location) ==
    from_location = None \/ to_location = None

\* not from_location and not to_location
BothMissing(from_location, to_location) ==
    from_location = None /\ to_location = None

RECURSIVE max_id(_, _)
max_id(movements_l, default) ==
    IF movements_l = <<>> THEN default
    ELSE LET m == movements_l[1].movement_id
             rest == max_id(Tail(movements_l), default)
         IN  IF Len(movements_l) = 1 THEN m
             ELSE IF m > rest THEN m ELSE rest

RECURSIVE min_id(_, _)
min_id(movements_l, default) ==
    IF movements_l = <<>> THEN default
    ELSE LET m == movements_l[1].movement_id
             rest == min_id(Tail(movements_l), default)
         IN  IF Len(movements_l) = 1 THEN m
             ELSE IF m < rest THEN m ELSE rest

\* len(movements) + 1
NextMovementIdByLen(movements_l) == Len(movements_l) + 1

\* min([m['movement_id'] for m in movements], default=0) + 1
NextMovementIdByMin(movements_l) == min_id(movements_l, 0) + 1

\* max([m['movement_id'] for m in movements], default=0) + 1
NextMovementId(movements_l) == max_id(movements_l, 0) + 1

\* the POST branch of add_movement on the loaded list, the form and the clock
AddMovementPost(movements_l, form, now) ==
    LET product_id == form.product_id
        from_location == OrNone(strip(form.from_location))
        to_location == OrNone(strip(form.to_location))
        qty == ParseInt(form.qty)
    IN  IF ~qty.ok
        THEN [saved |-> FALSE, data |-> movements_l,
              resp |-> Response("", "", "error:ValueError")]
        ELSE IF BothMissing(from_location, to_location)
        THEN [saved |-> FALSE, data |-> movements_l,
              resp |-> Response("error",
                  "At least one location (From or To) must be selected!",
                  "redirect:add_movement")]
        ELSE [saved |-> TRUE,
              data |-> Append(movements_l,
                  [movement_id |-> NextMovementId(movements_l),
                   timestamp |-> now,
                   from_location |-> from_location,
                   to_location |-> to_location,
                   product_id |-> product_id,
                   qty |-> qty.value]),
              resp |-> Response("success", "Movement added successfully!",
                                "redirect:movements")]

add_movement_post ==
    \E pid \in ProductInputs, fl \in LocationInputs, tl \in LocationInputs,
       q \in QtyInputs, now \in Timestamps :
        LET form == [product_id |-> pid, from_location |-> fl,
                     to_location |-> tl, qty |-> q]
            r == AddMovementPost(load_data(movements), form, now)
        IN  /\ r.saved => Len(movements) < MaxMovements
            /\ movements' = IF r.saved THEN save_data(movements, r.data)
                            ELSE movements
            /\ req' = Request("add_movement", "POST", <<>>, form)
            /\ resp' = r.resp
            /\ UNCHANGED <<products, locations, report_data,
                           workers, acked, raced>>

add_movement_get ==
    /\ req' = Request("add_movement", "GET", <<>>, NoForm)
    /\ resp' = Response("", "", "render:add_movement.html")
    /\ UNCHANGED <<products, locations, movements, report_data,
                   workers, acked, raced>>

add_movement == add_movement_post \/ add_movement_get

NextLedger ==
    \/ add_movement_post
    \/ add_movement_get

\* the ledger built by requests alone, from no file
SpecLedger == Init /\ [][NextLedger]_vars

\* movements.json edited by hand: any ids, in any order
ManualMovement(id) ==
    [movement_id |-> id, timestamp |-> "2024-01-01 00:00:00",
     from_location |-> None, to_location |-> <<"L">>,
     product_id |-> <<"P">>, qty |-> 10]

ManualLedgers ==
    UNION {[1..n -> {ManualMovement(id) : id \in 1..MaxManualId}] :
              n \in 0..MaxManualLen}

InitEdited ==
    /\ products = <<>>
    /\ locations = <<>>
    /\ movements \in ManualLedgers
    /\ req = NoRequest
    /\ resp = NoResponse
    /\ report_data = NoReport
    /\ workers = <<>>
    /\ acked = <<>>
    /\ raced = FALSE

SpecLedgerEdited == InitEdited /\ [][NextLedger]_vars

\* ----------------------------------------------------------- balance report
Bar == <<"|">>

\* if x: (None and '' are falsy)
Truthy(x) == x # None /\ x # <<>>

\* f"{product_id}|{location}"
BalanceKey(product_id, location) == product_id \o Bar \o location

\* balance is a dict: its entries in insertion order
DictHas(d, key) == \E i \in 1..Len(d) : d[i].key = key

\* balance.get(key, default)
DictGet(d, key, default) ==
    IF DictHas(d, key)
    THEN d[CHOOSE i \in 1..Len(d) : d[i].key = key].value
    ELSE default

\* balance[key] = value: an existing key keeps its place, a new one goes last
DictSet(d, key, value) ==
    IF DictHas(d, key)
    THEN [i \in 1..Len(d) |->
             IF d[i].key = key THEN [key |-> key, value |-> value] ELSE d[i]]
    ELSE Append(d, [key |-> key, value |-> value])

\* the body of "for movement in movements" on one movement
Accumulate(balance, movement) ==
    LET product_id == movement.product_id
        qty == movement.qty
        from_loc == movement.from_location
        to_loc == movement.to_location
        b1 == IF Truthy(from_loc)
              THEN LET key == BalanceKey(product_id, from_loc)
                   IN  DictSet(balance, key, DictGet(balance, key, 0) - qty)
              ELSE balance
    IN  IF Truthy(to_loc)
        THEN LET key == BalanceKey(product_id, to_loc)
             IN  DictSet(b1, key, DictGet(b1, key, 0) + qty)
        ELSE b1

RECURSIVE Balance(_, _)
Balance(balance, movements_l) ==
    IF movements_l = <<>> THEN balance
    ELSE Balance(Accumulate(balance, Head(movements_l)), Tail(movements_l))

\* key.split('|'): the pieces between the bars
RECURSIVE split_bar(_, _)
split_bar(s, piece) ==
    IF s = <<>> THEN <<piece>>
    ELSE IF Head(s) = "|" THEN <<piece>> \o split_bar(Tail(s), <<>>)
    ELSE split_bar(Tail(s), Append(piece, Head(s)))

split(s) == split_bar(s, <<>>)

Unknown == <<"U", "n", "k", "n", "o", "w", "n">>

\* {p['product_id']: p['name'] for p in products}.get(product_id, 'Unknown'):
\* of records with the same id the last one's name stays in the dict
ProductName(products_l, product_id) ==
    IF \E i \in 1..Len(products_l) : products_l[i].product_id = product_id
    THEN products_l[CHOOSE i \in 1..Len(products_l) :
            /\ products_l[i].product_id = product_id
            /\ \A j \in (i + 1)..Len(products_l) :
                   products_l[j].product_id # product_id].name
    ELSE Unknown

\* {l['location_id']: l['name'] for l in locations}.get(location_id, 'Unknown')
LocationName(locations_l, location_id) ==
    IF \E i \in 1..Len(locations_l) : locations_l[i].location_id = location_id
    THEN locations_l[CHOOSE i \in 1..Len(locations_l) :
            /\ locations_l[i].location_id = location_id
            /\ \A j \in (i + 1)..Len(locations_l) :
                   locations_l[j].location_id # location_id].name
    ELSE Unknown

\* "product_id, location_id = key.split('|')" raises ValueError unless the
\* key splits in exactly two
Unpacks(key) == Len(split(key)) = 2

Row(products_l, locations_l, entry) ==
    LET parts == split(entry.key)
        product_id == parts[1]
        location_id == parts[2]
    IN  [product_id |-> product_id,
         product_name |-> ProductName(products_l, product_id),
         location_id |-> location_id,
         location_name |-> LocationName(locations_l, location_id),
         qty |-> entry.value]

\* the loop "for key, qty in balance.items()"; error once a key fails to unpack
RECURSIVE Rows(_, _, _, _)
Rows(products_l, locations_l, balance, acc) ==
    IF balance = <<>> THEN [error |-> FALSE, rows |-> acc]
    ELSE LET entry == Head(balance)
         IN  IF entry.value = 0
             THEN Rows(products_l, locations_l, Tail(balance), acc)
             ELSE IF ~Unpacks(entry.key)
             THEN [error |-> TRUE, rows |-> <<>>]
             ELSE Rows(products_l, locations_l, Tail(balance),
                       Append(acc, Row(products_l, locations_l, entry)))

\* the sort key with the tuple's fields the other way round
KeyLessByLocation(a, b) ==
    \/ str_lt(a.location_name, b.location_name)
    \/ /\ a.location_name = b.location_name
       /\ str_lt(a.product_name, b.product_name)

\* (a.product_name, a.location_name) < (b.product_name, b.location_name)
KeyLess(a, b) ==
    \/ str_lt(a.product_name, b.product_name)
    \/ /\ a.product_name = b.product_name
       /\ str_lt(a.location_name, b.location_name)

\* one step of a stable sort: x goes after every row whose key is not greater
Insert(sorted, x) ==
    LET before == {i \in 1..Len(sorted) : ~KeyLess(x, sorted[i])}
        k == IF \A i \in 1..Len(sorted) : KeyLess(x, sorted[i]) THEN 0
             ELSE CHOOSE i \in 1..Len(sorted) :
                     /\ ~KeyLess(x, sorted[i])
                     /\ \A j \in (i + 1)..Len(sorted) : KeyLess(x, sorted[j])
    IN  SubSeq(sorted, 1, k) \o <<x>> \o SubSeq(sorted, k + 1, Len(sorted))

\* report_data.sort(key=lambda x: (x['product_name'], x['location_name']))
RECURSIVE sort(_, _)
sort(rows, sorted) ==
    IF rows = <<>> THEN sorted
    ELSE sort(Tail(rows), Insert(sorted, Head(rows)))

\* what report() computes from the three loaded lists
Report(movements_l, products_l, locations_l) ==
    LET balance == Balance(<<>>, movements_l)
        r == Rows(products_l, locations_l, balance, <<>>)
    IN  IF r.error THEN [error |-> TRUE, rows |-> <<>>, done |-> TRUE]
        ELSE [error |-> FALSE, rows |-> sort(r.rows, <<>>), done |-> TRUE]

report ==
    LET r == Report(load_data(movements), load_data(products),
                    load_data(locations))
    IN  /\ report_data' = r
        /\ req' = Request("report", "GET", <<>>, NoForm)
        /\ resp' = IF r.error THEN Response("", "", "error:ValueError")
                   ELSE Response("", "", "render:report.html")
        /\ UNCHANGED <<products, locations, movements, workers, acked, raced>>

\* the stores a report is asked on: what add_product, add_location and
\* add_movement leave behind
ReportProductIds == {<<"P">>, <<"Q">>, <<"P", "|", "L">>}
ReportLocationIds == {<<"L">>, <<"M">>, <<"L", "|", "M">>}
ReportQtys == {4, 10}

ReportProducts ==
    <<[product_id |-> <<"P">>, name |-> <<"X">>, description |-> <<>>]>>

ReportLocations ==
    <<[location_id |-> <<"L">>, name |-> <<"X">>, address |-> <<>>]>>

MovementForms ==
    {f \in [product_id : ReportProductIds,
            from_location : ReportLocationIds \cup {None},
            to_location : ReportLocationIds \cup {None},
            qty : ReportQtys] :
        ~BothMissing(f.from_location, f.to_location)}

\* the ledger add_movement leaves after the forms fs, one after the other
LedgerOf(fs) ==
    [i \in 1..Len(fs) |->
        [movement_id |-> i, timestamp |-> "2024-01-01 00:00:00",
         from_location |-> fs[i].from_location,
         to_location |-> fs[i].to_location,
         product_id |-> fs[i].product_id,
         qty |-> fs[i].qty]]

InitReport ==
    /\ products = ReportProducts
    /\ locations = ReportLocations
    /\ \E n \in 0..MaxReportLen : \E fs \in [1..n -> MovementForms] :
           movements = LedgerOf(fs)
    /\ req = NoRequest
    /\ resp = NoResponse
    /\ report_data = NoReport
    /\ workers = <<>>
    /\ acked = <<>>
    /\ raced = FALSE

NextReport == report

SpecReport == InitReport /\ [][NextReport]_vars

\* ------------------------------------------------- requests on two threads
\* add_movement POSTs served by two threads of the server: a request reads
\* movements.json (line 154) and later rewrites it (line 180), and the other
\* thread may run in between.
Threads == {"t1", "t2"}
ConcProductInputs == {<<"P">>, <<"Q">>}
ConcLocationInputs == {<<>>, <<"L">>}
ConcQtyInputs == {<<"4">>}

Idle == [pc |-> "idle", movements_l |-> <<>>, form |-> NoForm]

\* lines 150-159: the request has loaded the file and read its form
conc_load(t) ==
    /\ workers[t].pc = "idle"
    /\ Len(acked) + Cardinality({u \in Threads : workers[u].pc = "loaded"})
          < MaxMovements
    /\ \E pid \in ConcProductInputs, tl \in ConcLocationInputs,
          q \in ConcQtyInputs :
          workers' = [workers EXCEPT ![t] =
              [pc |-> "loaded", movements_l |-> load_data(movements),
               form |-> [product_id |-> pid, from_location |-> <<>>,
                         to_location |-> tl, qty |-> q]]]
    /\ raced' = (raced \/ \E u \in Threads \ {t} : workers[u].pc = "loaded")
    /\ UNCHANGED <<products, locations, movements, req, resp, report_data,
                   acked>>

\* lines 161-182: the rest of the handler, on the list loaded before
conc_save(t) ==
    /\ workers[t].pc = "loaded"
    /\ \E now \in Timestamps :
          LET r == AddMovementPost(workers[t].movements_l, workers[t].form,
                                   now)
          IN  /\ movements' = IF r.saved THEN save_data(movements, r.data)
                              ELSE movements
              /\ acked' = IF r.saved THEN Append(acked, r.data[Len(r.data)])
                          ELSE acked
              /\ req' = Request("add_movement", "POST", <<>>, workers[t].form)
              /\ resp' = r.resp
    /\ workers' = [workers EXCEPT ![t] = Idle]
    /\ UNCHANGED <<products, locations, report_data, raced>>

InitConc ==
    /\ products = <<>>
    /\ locations = <<>>
    /\ movements = <<>>
    /\ req = NoRequest
    /\ resp = NoResponse
    /\ report_data = NoReport
    /\ workers = [t \in Threads |-> Idle]
    /\ acked = <<>>
    /\ raced = FALSE

NextConc ==
    \/ \E t \in Threads : conc_load(t)
    \/ \E t \in Threads : conc_save(t)

SpecConc == InitConc /\ [][NextConc]_vars

\* ---------------------------------------------------------------- claims
ProductIds(store) == {store[i].product_id : i \in 1..Len(store)}
LocationIds(store) == {store[i].location_id : i \in 1..Len(store)}

\* C1: an add whose (trimmed) identifier is already in the store flashes the
\* duplicate-id error and leaves the store exactly as it was, in both
\* registries.
C1_DuplicateAddFails ==
    [][/\ (/\ req'.route = "add_product" /\ req'.method = "POST"
           /\ strip(req'.form.product_id) \in ProductIds(products))
          => (/\ resp'.flash = "Product ID already exists!"
              /\ resp'.category = "error"
              /\ products' = products)
       /\ (/\ req'.route = "add_location" /\ req'.method = "POST"
           /\ strip(req'.form.location_id) \in LocationIds(locations))
          => (/\ resp'.flash = "Location ID already exists!"
              /\ resp'.category = "error"
              /\ locations' = locations)]_vars

\* a duplicate add was refused for an identifier typed with blanks around it
C1_Witness ==
    /\ req.route = "add_product" /\ req.method = "POST"
    /\ resp.flash = "Product ID already exists!"
    /\ req.form.product_id # strip(req.form.product_id)
    /\ strip(req.form.product_id) \in ProductIds(products)

\* C2: no two records of the product store share a product_id and no two
\* records of the location store share a location_id, in every state reached
\* by adds and updates from empty stores.
C2_IdsUnique ==
    /\ \A i, j \in 1..Len(products) :
           products[i].product_id = products[j].product_id => i = j
    /\ \A i, j \in 1..Len(locations) :
           locations[i].location_id = locations[j].location_id => i = j

\* two products are stored and an update has just been saved
C2_Witness ==
    /\ Len(products) = 2
    /\ req.route = "edit_product"
    /\ resp.flash = "Product updated successfully!"

UpdateFrame(store, store2, idOf(_), id) ==
    /\ Len(store2) = Len(store)
    /\ \A j \in 1..Len(store) :
           /\ idOf(store2[j]) = idOf(store[j])
           /\ idOf(store[j]) # id => store2[j] = store[j]

ProductIdOf(r) == r.product_id
LocationIdOf(r) == r.location_id

\* C8: an update on an absent identifier flashes not-found and leaves the
\* store unchanged; an update on a present identifier keeps the number of
\* records, every identifier in its position, and every record with another
\* identifier; the other store is untouched.
C8_UpdateFrame ==
    [][/\ (req'.route = "edit_product" /\ req'.method = "POST")
          => /\ locations' = locations
             /\ IF req'.arg \in ProductIds(products)
                THEN /\ resp'.flash = "Product updated successfully!"
                     /\ UpdateFrame(products, products', ProductIdOf,
                                    req'.arg)
                ELSE /\ resp'.flash = "Product not found!"
                     /\ products' = products
       /\ (req'.route = "edit_location" /\ req'.method = "POST")
          => /\ products' = products
             /\ IF req'.arg \in LocationIds(locations)
                THEN /\ resp'.flash = "Location updated successfully!"
                     /\ UpdateFrame(locations, locations', LocationIdOf,
                                    req'.arg)
                ELSE /\ resp'.flash = "Location not found!"
                     /\ locations' = locations]_vars

\* the second of two locations was updated and differs from the first
C8_Witness ==
    /\ req.route = "edit_location" /\ req.method = "POST"
    /\ resp.flash = "Location updated successfully!"
    /\ Len(locations) = 2
    /\ locations[2].location_id = req.arg
    /\ locations[2].name = strip(req.form.name)
    /\ locations[1].name # locations[2].name

\* C3: an append with both locations empty flashes the invalid-movement
\* error and leaves the ledger unchanged; an append with at least one of them
\* set (after trimming) keeps every record and adds exactly one, carrying the
\* form's product_id, locations and integer qty; every movement in the ledger
\* has a from_location or a to_location.
C3_AppendOutcome ==
    [][(/\ req'.route = "add_movement" /\ req'.method = "POST"
        /\ ParseInt(req'.form.qty).ok)
       => LET f == strip(req'.form.from_location)
              t == strip(req'.form.to_location)
              n == Len(movements)
          IN  /\ IF f = <<>> /\ t = <<>>
                 THEN /\ resp'.category = "error"
                      /\ resp'.flash =
                         "At least one location (From or To) must be selected!"
                      /\ movements' = movements
                 ELSE /\ resp'.flash = "Movement added successfully!"
                      /\ Len(movements') = n + 1
                      /\ SubSeq(movements', 1, n) = movements
                      /\ movements'[n + 1].product_id = req'.form.product_id
                      /\ movements'[n + 1].qty = ParseInt(req'.form.qty).value
                      /\ movements'[n + 1].from_location =
                            (IF f = <<>> THEN None ELSE f)
                      /\ movements'[n + 1].to_location =
                            (IF t = <<>> THEN None ELSE t)
              /\ \A i \in 1..Len(movements') :
                    \/ movements'[i].from_location # None
                    \/ movements'[i].to_location # None]_vars

\* a movement from a location to itself with a negative qty was accepted
C3_Witness ==
    /\ req.route = "add_movement"
    /\ resp.flash = "Movement added successfully!"
    /\ movements # <<>>
    /\ LET m == movements[Len(movements)]
       IN  /\ m.from_location = m.to_location
           /\ m.from_location # None
           /\ m.qty < 0

IdsIn(ledger) == {ledger[i].movement_id : i \in 1..Len(ledger)}

\* C4: a successful append gives the new record movement_id 1 when the ledger
\* is empty and N + 1 when N is the largest movement_id in the ledger, whatever
\* the stored ids and their order.
C4_NextIdIsMaxPlusOne ==
    [][(/\ req'.route = "add_movement"
        /\ resp'.flash = "Movement added successfully!")
       => LET new == movements'[Len(movements')].movement_id
          IN  /\ Len(movements') = Len(movements) + 1
              /\ IF movements = <<>> THEN new = 1
                 ELSE /\ new - 1 \in IdsIn(movements)
                      /\ \A id \in IdsIn(movements) : id <= new - 1]_vars

\* an append to a hand-edited ledger whose ids were out of order with a gap
C4_Witness ==
    /\ resp.flash = "Movement added successfully!"
    /\ Len(movements) = 3
    /\ movements[1].movement_id = 3
    /\ movements[2].movement_id = 1
    /\ movements[3].movement_id = 4

\* C5: from an empty ledger, the movement_id values are pairwise distinct and
\* strictly increasing in storage order, whatever appends were attempted.
C5_IdsIncreasing ==
    \A i, j \in 1..Len(movements) :
        i < j => movements[i].movement_id < movements[j].movement_id

\* three movements are stored and the last attempt was rejected
C5_Witness ==
    /\ Len(movements) = 3
    /\ resp.category = "error"
    /\ req.route = "add_movement"

\* the net quantity of a pair: what arrived at the location minus what left
RECURSIVE Net(_, _, _)
Net(ledger, p, l) ==
    IF ledger = <<>> THEN 0
    ELSE LET m == Head(ledger)
         IN  Net(Tail(ledger), p, l)
             + (IF m.product_id = p /\ m.to_location = l THEN m.qty ELSE 0)
             - (IF m.product_id = p /\ m.from_location = l THEN m.qty ELSE 0)

RowsFor(p, l) ==
    {i \in 1..Len(report_data.rows) :
        /\ report_data.rows[i].product_id = p
        /\ report_data.rows[i].location_id = l}

\* C6: the report has a row for a (product_id, location_id) pair exactly when
\* the pair's net quantity is not 0, and the row's qty is that net; the ledger
\* [P: none->L 10, P: L->M 4] gives exactly (P,L)=6 and (P,M)=4.
C6_RowIffNetNonZero ==
    report_data.done =>
        /\ ~report_data.error
        /\ \A p \in ReportProductIds, l \in ReportLocationIds :
              /\ (RowsFor(p, l) # {}) <=> (Net(movements, p, l) # 0)
              /\ \A i \in RowsFor(p, l) :
                    report_data.rows[i].qty = Net(movements, p, l)
              /\ Cardinality(RowsFor(p, l)) <= 1
        /\ \A i \in 1..Len(report_data.rows) :
              /\ report_data.rows[i].product_id \in ReportProductIds
              /\ report_data.rows[i].location_id \in ReportLocationIds

NoBar(s) == \A i \in 1..Len(s) : s[i] # "|"

BarFree(ledger) ==
    \A i \in 1..Len(ledger) :
        /\ NoBar(ledger[i].product_id)
        /\ NoBar(ledger[i].from_location)
        /\ NoBar(ledger[i].to_location)

\* what remains of C6 on the code: the same statement for ledgers none of
\* whose identifiers contains the bar
C6_HoldsWithoutBar == BarFree(movements) => C6_RowIffNetNonZero

\* the report of the ledger [P: none->L 10, P: L->M 4]
C6_Example ==
    (/\ report_data.done
     /\ Len(movements) = 2
     /\ movements[1].product_id = <<"P">> /\ movements[1].qty = 10
     /\ movements[1].from_location = None
     /\ movements[1].to_location = <<"L">>
     /\ movements[2].product_id = <<"P">> /\ movements[2].qty = 4
     /\ movements[2].from_location = <<"L">>
     /\ movements[2].to_location = <<"M">>)
    => /\ ~report_data.error
       /\ Len(report_data.rows) = 2
       /\ \E i \in RowsFor(<<"P">>, <<"L">>) : report_data.rows[i].qty = 6
       /\ \E i \in RowsFor(<<"P">>, <<"M">>) : report_data.rows[i].qty = 4

NameIn(registry, idOf(_), id) ==
    IF \E i \in 1..Len(registry) : idOf(registry[i]) = id
    THEN registry[CHOOSE i \in 1..Len(registry) : idOf(registry[i]) = id].name
    ELSE <<"U", "n", "k", "n", "o", "w", "n">>

RowOrdered(a, b) ==
    \/ str_lt(a.product_name, b.product_name)
    \/ /\ a.product_name = b.product_name
       /\ \/ str_lt(a.location_name, b.location_name)
          \/ a.location_name = b.location_name

\* C7: of two consecutive rows of the report the earlier one's product_name is
\* less, or the product_names are equal and its location_name is less or
\* equal; each name is the registry's name for the row's id, "Unknown" for an
\* id the registry lacks.
C7_RowsSortedByNames ==
    (report_data.done /\ ~report_data.error) =>
        /\ \A i \in 1..(Len(report_data.rows) - 1) :
              RowOrdered(report_data.rows[i], report_data.rows[i + 1])
        /\ \A i \in 1..Len(report_data.rows) :
              LET r == report_data.rows[i]
              IN  /\ r.product_name =
                        NameIn(products, ProductIdOf, r.product_id)
                  /\ r.location_name =
                        NameIn(locations, LocationIdOf, r.location_id)

\* a report of three rows or more: an unregistered product first, then two
\* rows of one product at two locations, the ledger's first movement being of
\* the registered product
C7_Witness ==
    /\ report_data.done /\ ~report_data.error
    /\ Len(report_data.rows) >= 3
    /\ movements[1].product_id = <<"P">>
    /\ report_data.rows[1].product_id = <<"Q">>
    /\ report_data.rows[1].product_name = <<"U", "n", "k", "n", "o", "w", "n">>
    /\ report_data.rows[2].product_name = report_data.rows[3].product_name
    /\ report_data.rows[2].location_name # report_data.rows[3].location_name

PairsOf(ledger) ==
    {<<ledger[i].product_id, ledger[i].from_location>> :
        i \in {j \in 1..Len(ledger) : ledger[j].from_location # None}}
    \cup
    {<<ledger[i].product_id, ledger[i].to_location>> :
        i \in {j \in 1..Len(ledger) : ledger[j].to_location # None}}

\* C10: movements of two different (product_id, location_id) pairs never add
\* to the same accumulator, every row carries the ids of the pair it was
\* accumulated for (its qty is that pair's net), and the report completes
\* without error, whatever characters the identifiers contain.
C10_PairsNeverCollide ==
    report_data.done =>
        /\ ~report_data.error
        /\ \A x, y \in PairsOf(movements) :
              x # y => BalanceKey(x[1], x[2]) # BalanceKey(y[1], y[2])
        /\ \A i \in 1..Len(report_data.rows) :
              LET r == report_data.rows[i]
              IN  /\ <<r.product_id, r.location_id>> \in PairsOf(movements)
                  /\ r.qty = Net(movements, r.product_id, r.location_id)

\* C9: when no request loads the file while another is between its load and
\* its save, the file holds exactly the movements whose requests flashed
\* success, in that order; and a request that saves leaves in the file the
\* list it had loaded plus its own record, whatever was saved in between.
C9_LastWriteWins ==
    /\ [](~raced => movements = acked)
    /\ [][\A t \in Threads :
            (/\ workers[t].pc = "loaded" /\ workers'[t].pc = "idle"
             /\ resp'.flash = "Movement added successfully!")
            => /\ Len(acked') = Len(acked) + 1
               /\ movements' =
                     Append(workers[t].movements_l, acked'[Len(acked')])]_vars

\* two requests loaded the empty file, both flashed success, and the file
\* holds only the record of the one that saved last
C9_Witness ==
    /\ raced
    /\ \A t \in Threads : workers[t].pc = "idle"
    /\ Len(acked) = 2
    /\ acked[1].product_id # acked[2].product_id
    /\ movements = <<acked[2]>>

====
